---------------------------- MODULE Spec2Model ----------------------------
(***************************************************************************)
(* Expression nodes of ox.target.python.expr_ast: the call-argument        *)
(* builder (generate_args, Call.from_args, Call.add_args), the token       *)
(* rendering of BinOp, UnaryOp, Call, ArgDef and Ternary with their        *)
(* parenthesisation rules, and the static folding of And / Or.             *)
(*                                                                         *)
(* A node is a record whose "kind" field names its class; a Python str is  *)
(* a TLA+ string, a token stream is a sequence of strings.                 *)
(***************************************************************************)
EXTENDS FiniteSets, Integers, Sequences, TLC

VARIABLES
    call,       \* the Call node under construction/extension, or NoCall
    callId,     \* identity of that node: a new number for every node built
    op,         \* the operation that ran last
    err,        \* the exception it raised, "none" when it returned
    ret,        \* the value it returned
    yielded,    \* how many arguments its generate_args yielded
    input,      \* argument-builder runs: the (callee, *args, **kwargs) input
    gen,        \* ... list(generate_args(*args, **kwargs))
    made,       \* ... Call.from_args(e, *args, **kwargs)
    built,      \* ... c = Call(e, Tree("args", []))
    added,      \* ... c.add_args(*args, **kwargs)
    tree,       \* rendering runs: the node to render
    out,        \* ... list(tree.tokens(ctx))
    foldIn,     \* folding runs: the node class and the (lhs, rhs) given
    foldOut     \* ... cls.from_static_children(lhs, rhs)

vars == <<call, callId, op, err, ret, yielded, input, gen, made, built,
          added, tree, out, foldIn, foldOut>>

callVars == <<call, callId, op, err, ret, yielded>>
argVars == <<input, gen, made, built, added>>
renderVars == <<tree, out>>
foldVars == <<foldIn, foldOut>>

-----------------------------------------------------------------------------
(* Bounds *)

\* Longest *args tuple given to one from_args / add_args call of the Call
\* life cycle.
MaxStepItems == 2
\* Longest argument list a Call grows to in the life cycle.
MaxCallArgs == 3
\* Number of Call nodes built in one life cycle.
MaxCalls == 2
\* Longest *args tuple of an argument-builder run.
MaxItems == 4
\* Atoms 1 .. NumAtoms are the literal leaves of the rendered trees.
NumAtoms == 3
\* Literals 0 .. MaxLiteral are the host values given to a fold.
MaxLiteral == 3

-----------------------------------------------------------------------------
(* Nodes *)

Atom(value) == [kind |-> "Atom", value |-> value]
Name(id) == [kind |-> "Name", id |-> id]
Void == [kind |-> "Void"]
And(lhs, rhs) == [kind |-> "And", lhs |-> lhs, rhs |-> rhs]
Or(lhs, rhs) == [kind |-> "Or", lhs |-> lhs, rhs |-> rhs]
UnaryOp(tag, expr) == [kind |-> "UnaryOp", op |-> tag, expr |-> expr]
BinOp(tag, lhs, rhs) == [kind |-> "BinOp", op |-> tag, lhs |-> lhs, rhs |-> rhs]
Starred(expr, kwstar) == [kind |-> "Starred", expr |-> expr, kwstar |-> kwstar]
Keyword(expr, name) == [kind |-> "Keyword", expr |-> expr, name |-> name]
GetAttr(expr, attr) == [kind |-> "GetAttr", expr |-> expr, attr |-> attr]
Call(expr, args) == [kind |-> "Call", expr |-> expr, args |-> args]
ArgDef(name, default, annotation) ==
    [kind |-> "ArgDef", name |-> name, default |-> default,
     annotation |-> annotation]
Ternary(cond, then, other) ==
    [kind |-> "Ternary", cond |-> cond, then |-> then, other |-> other]

\* Host values that are not nodes, as they reach the builder and the folds.
HostStr(s) == [host |-> "str", s |-> s]
HostInt(v) == [host |-> "int", v |-> v]

IsStr(x) == "host" \in DOMAIN x /\ x.host = "str"
\* isinstance(x, Expr)
IsExpr(x) == "kind" \in DOMAIN x

\* to_expr: a node is returned unchanged, an atom value becomes an Atom and
\* a str becomes a Name.
ToExpr(x) ==
    IF IsExpr(x) THEN x
    ELSE IF IsStr(x) THEN Name(x.s)
    ELSE Atom(x.v)

\* bool(x) of Python: a Void node is falsy and every other node truthy (which
\* is what ArgDef.tokens relies on); an int is truthy unless 0, a str unless
\* empty.
Truthy(x) ==
    IF IsExpr(x) THEN x.kind # "Void"
    ELSE IF IsStr(x) THEN x.s # ""
    ELSE x.v # 0

-----------------------------------------------------------------------------
(* Token rendering *)

\* wrap_tokens(tokens, wrap=True)
WrapTokens(tokens, wrap) ==
    IF wrap THEN <<"(">> \o tokens \o <<")">> ELSE tokens

\* BinaryOp.precedence_level of the operator tags used here.
PrecedenceLevel(tag) ==
    CASE tag \in {"+", "-"} -> 10
      [] tag = "*" -> 11

RECURSIVE Tokens(_)

\* Atom.tokens
AtomTokens(self) == <<ToString(self.value)>>

\* Name.tokens
NameTokens(self) == <<self.id>>

\* And / Or: Meta.command = "{lhs} and {rhs}" / "{lhs} or {rhs}"
AndTokens(self) == Tokens(self.lhs) \o <<" and ">> \o Tokens(self.rhs)
OrTokens(self) == Tokens(self.lhs) \o <<" or ">> \o Tokens(self.rhs)

\* UnaryOp.tokens
UnaryOpTokens(self) == <<self.op>> \o Tokens(self.expr)

\* BinOp.wrap_child_tokens with >= for >: an equal-precedence child wrapped
BinOpWrapChildTokens_GreaterEqual(self, child, role) ==
    IF child.kind = "BinOp"
    THEN PrecedenceLevel(self.op) >= PrecedenceLevel(child.op)
    ELSE child.kind \in {"UnaryOp", "And", "Or"}

\* BinOp.wrap_child_tokens
BinOpWrapChildTokens(self, child, role) ==
    IF child.kind = "BinOp"
    THEN PrecedenceLevel(self.op) > PrecedenceLevel(child.op)
    ELSE IF child.kind \in {"UnaryOp", "And", "Or"} THEN TRUE
    ELSE FALSE

\* GetAttr.wrap_child_tokens: decided on self.expr, whatever the child
GetAttrWrapChildTokens(self, child, role) ==
    LET value == self.expr IN
    IF value.kind \in {"BinOp", "UnaryOp", "And", "Or"} THEN TRUE
    ELSE IF value.kind = "Atom" THEN TRUE    \* every Atom here holds an int
    ELSE FALSE

\* node.child_tokens(child, role, ctx): the child's tokens, wrapped when the
\* parent's wrap_child_tokens says so
BinOpChildTokens(self, child, role) ==
    WrapTokens(Tokens(child), BinOpWrapChildTokens(self, child, role))

\* BinOp.tokens
BinOpTokens(self) ==
    BinOpChildTokens(self, self.lhs, "lhs")
        \o <<" " \o self.op \o " ">>
        \o BinOpChildTokens(self, self.rhs, "rhs")

\* GetAttr.tokens
GetAttrTokens(self) ==
    WrapTokens(Tokens(self.expr), GetAttrWrapChildTokens(self, self.expr, "expr"))
        \o <<".", self.attr>>

\* Starred.tokens
StarredTokens(self) ==
    LET wrap == self.expr.kind \in {"And", "Or"} IN
    <<IF self.kwstar THEN "**" ELSE "*">> \o WrapTokens(Tokens(self.expr), wrap)

\* Keyword.tokens
KeywordTokens(self) == <<self.name, "=">> \o Tokens(self.expr)

RECURSIVE JoinArgTokens(_)
\* the loop of Call.tokens over the arguments after the first
JoinArgTokens(children) ==
    IF children = <<>> THEN <<>>
    ELSE <<", ">> \o Tokens(Head(children)) \o JoinArgTokens(Tail(children))

\* Call.tokens
CallTokens(self) ==
    LET e == self.expr
        callee == IF e.kind \in {"BinOp", "UnaryOp", "And", "Or"}
                  THEN WrapTokens(Tokens(e), TRUE)
                  ELSE IF e.kind = "Atom"          \* an int, as above
                  THEN WrapTokens(Tokens(e), TRUE)
                  ELSE Tokens(e)
        children == self.args
    IN callee \o <<"(">>
        \o (IF children = <<>> THEN <<>>
            ELSE Tokens(Head(children)) \o JoinArgTokens(Tail(children)))
        \o <<")">>

\* ArgDef.tokens: the second test of self.default is an "if", not an "elif"
ArgDefTokens(self) ==
    Tokens(self.name)
        \o (IF Truthy(self.annotation)
            THEN <<": ">> \o Tokens(self.annotation)
                    \o (IF Truthy(self.default)
                        THEN <<" = ">> \o Tokens(self.default) ELSE <<>>)
            ELSE <<>>)
        \o (IF Truthy(self.default)
            THEN <<"=">> \o Tokens(self.default) ELSE <<>>)

\* Ternary.tokens with the else branch wrapped like the other two
TernaryTokens_WrapOther(self) ==
    WrapTokens(Tokens(self.then), self.then.kind = "Ternary")
        \o <<" if ">>
        \o WrapTokens(Tokens(self.cond), self.cond.kind = "Ternary")
        \o <<" else ">>
        \o WrapTokens(Tokens(self.other), self.other.kind = "Ternary")

\* Ternary.tokens
TernaryTokens(self) ==
    WrapTokens(Tokens(self.then), self.then.kind = "Ternary")
        \o <<" if ">>
        \o WrapTokens(Tokens(self.cond), self.cond.kind = "Ternary")
        \o <<" else ">>
        \o Tokens(self.other)

\* node.tokens(ctx), dispatched on the node's class
Tokens(node) ==
    CASE node.kind = "Atom" -> AtomTokens(node)
      [] node.kind = "Name" -> NameTokens(node)
      [] node.kind = "And" -> AndTokens(node)
      [] node.kind = "Or" -> OrTokens(node)
      [] node.kind = "UnaryOp" -> UnaryOpTokens(node)
      [] node.kind = "BinOp" -> BinOpTokens(node)
      [] node.kind = "GetAttr" -> GetAttrTokens(node)
      [] node.kind = "Starred" -> StarredTokens(node)
      [] node.kind = "Keyword" -> KeywordTokens(node)
      [] node.kind = "Call" -> CallTokens(node)
      [] node.kind = "ArgDef" -> ArgDefTokens(node)
      [] node.kind = "Ternary" -> TernaryTokens(node)

-----------------------------------------------------------------------------
(* Static folding *)

\* And.from_static_children: to_expr(lhs and rhs)
AndFromStaticChildren(lhs, rhs) == ToExpr(IF Truthy(lhs) THEN rhs ELSE lhs)

\* Or.from_static_children: to_expr(lhs or rhs)
OrFromStaticChildren(lhs, rhs) == ToExpr(IF Truthy(lhs) THEN lhs ELSE rhs)

\* cls.from_static_children(lhs, rhs) for the two classes
FromStaticChildren(cls, lhs, rhs) ==
    IF cls = "And" THEN AndFromStaticChildren(lhs, rhs)
    ELSE OrFromStaticChildren(lhs, rhs)

-----------------------------------------------------------------------------
(* The call-argument builder *)

\* arg.startswith(prefix)
StartsWith(s, prefix) ==
    Len(s) >= Len(prefix) /\ SubSeq(s, 1, Len(prefix)) = prefix

\* arg[n:]
DropChars(s, n) == SubSeq(s, n + 1, Len(s))

RECURSIVE GenerateFrom(_, _, _, _)
\* The loop of generate_args over *args from position i on, has_keyword and
\* the arguments yielded so far given.  The result is what the consumer of
\* the generator sees: the arguments yielded, and the exception that ended
\* it ("none" when the loop ran to its end).  next(args) on the exhausted
\* iterator raises StopIteration inside the generator, which reaches the
\* caller as a RuntimeError.
GenerateFrom(args, i, has_keyword, acc) ==
    IF i > Len(args) THEN [out |-> acc, err |-> "none"]
    ELSE LET arg == args[i] IN
    IF IsStr(arg) THEN
        IF StartsWith(arg.s, "**") THEN
            IF arg.s = "**" THEN
                IF i + 1 > Len(args)
                THEN [out |-> acc, err |-> "RuntimeError"]
                ELSE GenerateFrom(args, i + 2, TRUE,
                        Append(acc, Starred(ToExpr(args[i + 1]), TRUE)))
            ELSE GenerateFrom(args, i + 1, TRUE,
                    Append(acc, Starred(Name(DropChars(arg.s, 2)), TRUE)))
        ELSE IF StartsWith(arg.s, "*") THEN
            IF has_keyword THEN [out |-> acc, err |-> "ValueError"]
            ELSE IF arg.s = "*" THEN
                IF i + 1 > Len(args)
                THEN [out |-> acc, err |-> "RuntimeError"]
                ELSE GenerateFrom(args, i + 2, has_keyword,
                        Append(acc, Starred(ToExpr(args[i + 1]), FALSE)))
            ELSE GenerateFrom(args, i + 1, has_keyword,
                    Append(acc, Starred(Name(DropChars(arg.s, 1)), FALSE)))
        ELSE [out |-> acc, err |-> "TypeError"]
    ELSE
        IF ~IsExpr(arg) THEN [out |-> acc, err |-> "TypeError"]
        ELSE GenerateFrom(args, i + 1, has_keyword, Append(acc, arg))

\* the loop of generate_args over kwargs.items()
KeywordArgs(kwargs) ==
    [k \in 1 .. Len(kwargs) |-> Keyword(ToExpr(kwargs[k].value), kwargs[k].name)]

\* generate_args(*args, **kwargs), run to its end or to its exception
GenerateArgs(args, kwargs) ==
    LET g == GenerateFrom(args, 1, FALSE, <<>>) IN
    IF g.err = "none"
    THEN [out |-> g.out \o KeywordArgs(kwargs), err |-> "none"]
    ELSE g

\* Call.add_args with generate_args(*args): the keywords dropped
AddArgsGenerated_NoKwargs(args, kwargs) == GenerateArgs(args, <<>>)

\* Call.add_args: args = list(generate_args(*args, **kwargs))
AddArgsGenerated(args, kwargs) == GenerateArgs(args, kwargs)

\* Call.add_args putting the new arguments before the existing ones
AddArgsChildren_Prepend(children, g) ==
    IF g.err = "none" THEN g.out \o children ELSE children

\* Call.add_args with children.extend(generate_args(...)): the generator
\* consumed by extend, so what it yields before raising is appended
AddArgsChildren_Lazy(children, g) == children \o g.out

\* Call.add_args: self.args.children after the call.  The generator is
\* drained into a list first, so nothing is appended when it raises.
AddArgsChildren(children, g) ==
    IF g.err = "none" THEN children \o g.out ELSE children

\* Call.add_args: the list returned
AddArgsReturn(g) == g.out

\* Call.from_args: cls(e, Tree("args", list(generate_args(*args, **kwargs))))
FromArgsNode(e, g) == Call(e, g.out)

-----------------------------------------------------------------------------
(* Inputs *)

\* Sequences over S of length at most n
RECURSIVE SeqsUpTo(_, _)
SeqsUpTo(S, n) ==
    IF n = 0 THEN {<<>>}
    ELSE LET shorter == SeqsUpTo(S, n - 1) IN
         shorter \cup {Append(s, x) : s \in shorter, x \in S}

\* What a caller passes positionally: a node, the two markers, the two
\* shorthands, a str that is neither, and a value that is no node and no str.
Items ==
    {Name("a"), HostStr("*"), HostStr("**"), HostStr("*args"),
     HostStr("**kw"), HostStr("s"), HostInt(1)}

\* The same for the steps of the Call life cycle: a node, the two
\* shorthands, and a value that is no node and no str.
StepItems == {Name("a"), HostStr("*args"), HostStr("**kw"), HostInt(1)}

\* What a caller passes by keyword.
KwInputs == {<<>>, <<[name |-> "x", value |-> HostInt(1)]>>}

Callees == {Name("f")}

NoCall == [kind |-> "NoCall"]
NotRun == [kind |-> "NotRun"]
None == [kind |-> "None"]

-----------------------------------------------------------------------------
(* The life cycle of a Call: from_args, add_args, tokens, and folds that    *)
(* are handed the Call as an operand.                                       *)

IdleCall ==
    /\ call = NoCall /\ callId = 0 /\ op = "none" /\ err = "none"
    /\ ret = None /\ yielded = 0
IdleArgs ==
    /\ input = None /\ gen = NotRun /\ made = NotRun /\ built = NotRun
    /\ added = NotRun
IdleRender == tree = Void /\ out = <<>>
IdleFold == foldIn = None /\ foldOut = NotRun

Init == IdleCall /\ IdleArgs /\ IdleRender /\ IdleFold

FromArgs(e, args, kwargs) ==
    LET g == GenerateArgs(args, kwargs) IN
    /\ op' = "from_args"
    /\ err' = g.err
    /\ yielded' = Len(g.out)
    /\ IF g.err = "none"
       THEN /\ callId < MaxCalls
            /\ call' = FromArgsNode(e, g)
            /\ callId' = callId + 1
            /\ ret' = [kind |-> "node", id |-> callId + 1]
       ELSE /\ UNCHANGED <<call, callId>>
            /\ ret' = None
    /\ UNCHANGED <<argVars, renderVars, foldVars>>

AddArgs(args, kwargs) ==
    LET g == AddArgsGenerated(args, kwargs)
        children == AddArgsChildren(call.args, g)
    IN
    /\ call # NoCall
    /\ Len(children) <= MaxCallArgs
    /\ op' = "add_args"
    /\ err' = g.err
    /\ yielded' = Len(g.out)
    /\ call' = [call EXCEPT !.args = children]
    /\ ret' = IF g.err = "none"
              THEN [kind |-> "list", items |-> AddArgsReturn(g)]
              ELSE None
    /\ UNCHANGED <<callId, argVars, renderVars, foldVars>>

RenderCall ==
    /\ call # NoCall
    /\ op' = "tokens"
    /\ err' = "none"
    /\ yielded' = 0
    /\ ret' = [kind |-> "tokens", items |-> Tokens(call)]
    /\ UNCHANGED <<call, callId, argVars, renderVars, foldVars>>

\* And / Or folded over the Call and another operand
FoldOperands == {Name("b"), HostInt(0), HostInt(1)}

FoldCall(cls, lhs, rhs) ==
    /\ call # NoCall
    /\ op' = "fold"
    /\ err' = "none"
    /\ yielded' = 0
    /\ ret' = [kind |-> "folded", node |-> FromStaticChildren(cls, lhs, rhs)]
    /\ UNCHANGED <<call, callId, argVars, renderVars, foldVars>>

Next ==
    \/ \E e \in Callees, args \in SeqsUpTo(StepItems, MaxStepItems),
          kwargs \in KwInputs : FromArgs(e, args, kwargs)
    \/ \E args \in SeqsUpTo(StepItems, MaxStepItems), kwargs \in KwInputs :
          AddArgs(args, kwargs)
    \/ RenderCall
    \/ \E cls \in {"And", "Or"}, other \in FoldOperands :
          FoldCall(cls, call, other) \/ FoldCall(cls, other, call)

Spec == Init /\ [][Next]_vars

-----------------------------------------------------------------------------
(* Argument-builder runs: one input, given to generate_args, to from_args   *)
(* and to add_args on a Call built with no arguments.                       *)

InitArgs ==
    /\ input \in [expr : Callees, args : SeqsUpTo(Items, MaxItems),
                  kwargs : KwInputs]
    /\ gen = NotRun /\ made = NotRun /\ built = NotRun /\ added = NotRun
    /\ IdleCall /\ IdleRender /\ IdleFold

Generate ==
    /\ gen = NotRun
    /\ gen' = [kind |-> "Generated"] @@ GenerateArgs(input.args, input.kwargs)
    /\ UNCHANGED <<input, made, built, added, callVars, renderVars, foldVars>>

MakeFromArgs ==
    LET g == GenerateArgs(input.args, input.kwargs) IN
    /\ made = NotRun
    /\ made' = [kind |-> "Made", err |-> g.err,
                node |-> IF g.err = "none" THEN FromArgsNode(input.expr, g)
                         ELSE NoCall]
    /\ UNCHANGED <<input, gen, built, added, callVars, renderVars, foldVars>>

Build ==
    /\ built = NotRun
    /\ built' = Call(input.expr, <<>>)
    /\ UNCHANGED <<input, gen, made, added, callVars, renderVars, foldVars>>

Add ==
    LET g == AddArgsGenerated(input.args, input.kwargs) IN
    /\ built # NotRun
    /\ added = NotRun
    /\ built' = [built EXCEPT !.args = AddArgsChildren(built.args, g)]
    /\ added' = [kind |-> "Added", err |-> g.err,
                 before |-> built.args,
                 ret |-> IF g.err = "none" THEN AddArgsReturn(g) ELSE <<>>]
    /\ UNCHANGED <<input, gen, made, callVars, renderVars, foldVars>>

NextArgs == Generate \/ MakeFromArgs \/ Build \/ Add

SpecArgs == InitArgs /\ [][NextArgs]_vars

-----------------------------------------------------------------------------
(* Rendering runs: one tree, rendered once.                                 *)

Leaves == {Atom(v) : v \in 1 .. NumAtoms} \cup {Name("c"), Name("d")}

BinaryTags == {"+", "-", "*"}
UnaryTags == {"-", "~"}

BinOpsOver(S) == {BinOp(t, l, r) : t \in BinaryTags, l \in S, r \in S}
TernariesOver(C, S) == {Ternary(c, t, o) : c \in C, t \in S, o \in S}

\* Every node class over operands from S.
NodesOver(S) ==
    BinOpsOver(S)
        \cup {UnaryOp(t, e) : t \in UnaryTags, e \in S}
        \cup {And(l, r) : l \in S, r \in S}
        \cup {Or(l, r) : l \in S, r \in S}
        \cup {GetAttr(e, "m") : e \in S}
        \cup {Call(e, <<>>) : e \in S}
        \cup {Call(Name("f"), <<Starred(e, FALSE), Keyword(e, "x")>>) : e \in S}
        \cup TernariesOver(S, S)

\* The operands of the rendered BinOp and UnaryOp nodes: the leaves, a BinOp
\* of every operator over them, and a node of every other class.
Children == Leaves \cup BinOpsOver(Leaves) \cup NodesOver({Name("c")})

\* The operands of the rendered Ternary nodes: the leaves, a node of every
\* class, and the Ternary nodes over the atoms.
Branches ==
    Leaves \cup NodesOver({Name("c")})
        \cup TernariesOver({Name("d")}, {Atom(v) : v \in 1 .. NumAtoms})

\* An ArgDef's default and annotation: absent, or a leaf.
Optional == {Void, Name("int"), Atom(1)}

InitRender ==
    /\ \/ \E t \in BinaryTags, l \in Children, r \in Children :
             tree = BinOp(t, l, r)
       \/ \E t \in UnaryTags, e \in Children : tree = UnaryOp(t, e)
       \/ \E c \in Branches, t \in Branches, o \in Branches :
             tree = Ternary(c, t, o)
       \/ \E d \in Optional, a \in Optional : tree = ArgDef(Name("x"), d, a)
    /\ out = <<>>
    /\ IdleCall /\ IdleArgs /\ IdleFold

Render ==
    /\ out = <<>>
    /\ out' = Tokens(tree)
    /\ UNCHANGED <<tree, callVars, argVars, foldVars>>

NextRender == Render

SpecRender == InitRender /\ [][NextRender]_vars

-----------------------------------------------------------------------------
(* Folding runs: And / Or folded once over two given children.              *)

\* What a fold is handed: literal host values, or nodes that are not literal.
FoldValues ==
    {HostInt(v) : v \in 0 .. MaxLiteral}
        \cup {Name("a"), Name("b"), Call(Name("f"), <<>>)}

InitFold ==
    /\ foldIn \in [cls : {"And", "Or"}, lhs : FoldValues, rhs : FoldValues]
    /\ foldOut = NotRun
    /\ IdleCall /\ IdleArgs /\ IdleRender

Fold ==
    /\ foldOut = NotRun
    /\ foldOut' = [kind |-> "Folded",
                   node |-> FromStaticChildren(foldIn.cls, foldIn.lhs, foldIn.rhs)]
    /\ UNCHANGED <<foldIn, callVars, argVars, renderVars>>

NextFold == Fold

SpecFold == InitFold /\ [][NextFold]_vars

-----------------------------------------------------------------------------
(* Properties of the argument builder *)

DoubleStarred(arg) == arg.kind = "Starred" /\ arg.kwstar
KeywordLike(arg) == arg.kind = "Keyword" \/ DoubleStarred(arg)

\* No positional or single-starred argument after a keyword or
\* double-starred one.
Ordered(args) ==
    \A i \in 1 .. Len(args), j \in 1 .. Len(args) :
        (i < j /\ KeywordLike(args[i])) => KeywordLike(args[j])

IsPrefix(s, t) == Len(s) <= Len(t) /\ SubSeq(t, 1, Len(s)) = s

\* C1: within one generate_args call, once a double-starred argument has
\* been produced, no plain positional or single-starred argument is produced
\* after it (the call raises the argument-order error instead).
C1_NoPositionalAfterDoubleStar ==
    gen # NotRun =>
        \A i \in 1 .. Len(gen.out), j \in 1 .. Len(gen.out) :
            (i < j /\ DoubleStarred(gen.out[i])) => KeywordLike(gen.out[j])

\* C2: add_args on a Call whose (ordered) argument list already ends with a
\* keyword or double-starred argument never leaves a positional or
\* single-starred argument after it: the list stays ordered across calls.
C2_OrderedAcrossCalls ==
    [][(/\ call # NoCall
        /\ call.args # <<>>
        /\ Ordered(call.args)
        /\ KeywordLike(call.args[Len(call.args)])
        /\ op' = "add_args")
       => Ordered(call'.args)]_vars

C6_AllOrNothing ==
    [][(op' \in {"add_args", "from_args"} /\ err' # "none")
       => (call' = call /\ callId' = callId /\ ret' = None)]_vars

\* an add_args that raised after its generator had yielded arguments, on a
\* Call with arguments
C6_Witness ==
    /\ op = "add_args" /\ err \in {"ValueError", "TypeError"}
    /\ yielded > 0
    /\ call # NoCall /\ call.args # <<>>

\* C7: from_args(e, *args, **kwargs) and add_args(*args, **kwargs) on
\* Call(e, []) raise the same error or end with the same node, and add_args
\* returns the arguments it appended after the ones there before.
C7_FromArgsIsBuildThenAdd ==
    (made # NotRun /\ added # NotRun) =>
        /\ made.err = added.err
        /\ built.args = added.before \o added.ret
        /\ (made.err = "none" => made.node = built)
        /\ (made.err # "none" => made.node = NoCall)

\* both ran and returned, given positional and keyword arguments
C7_Witness ==
    /\ made # NotRun /\ added # NotRun
    /\ made.err = "none"
    /\ input.args # <<>> /\ input.kwargs # <<>>
    /\ Len(added.ret) > Len(input.kwargs)

-----------------------------------------------------------------------------
(* Properties of the folds *)

IsLiteral(x) == ~IsExpr(x)

\* lhs and rhs / lhs or rhs of two ints
HostAnd(lhs, rhs) == IF lhs.v # 0 THEN rhs ELSE lhs
HostOr(lhs, rhs) == IF lhs.v # 0 THEN lhs ELSE rhs

\* C8: folding And / Or over two literals gives to_expr of the short-circuit
\* result; with a child that is a node it gives a new And / Or over the
\* given children.
C8_FoldRebuildsOverNodes ==
    foldOut # NotRun =>
        LET lhs == foldIn.lhs
            rhs == foldIn.rhs
        IN foldOut.node =
            IF IsLiteral(lhs) /\ IsLiteral(rhs)
            THEN ToExpr(IF foldIn.cls = "And" THEN HostAnd(lhs, rhs)
                        ELSE HostOr(lhs, rhs))
            ELSE IF foldIn.cls = "And" THEN And(ToExpr(lhs), ToExpr(rhs))
            ELSE Or(ToExpr(lhs), ToExpr(rhs))

-----------------------------------------------------------------------------
(* Properties of the rendering *)

Parenthesised(tokens) == <<"(">> \o tokens \o <<")">>

\* What the rule for a BinOp parent asks of a child.
NeedsParens(parent, child) ==
    \/ child.kind = "BinOp"
          /\ PrecedenceLevel(child.op) < PrecedenceLevel(parent.op)
    \/ child.kind \in {"UnaryOp", "And", "Or"}

Enclosed(parent, child) ==
    IF NeedsParens(parent, child) THEN Parenthesised(Tokens(child))
    ELSE Tokens(child)

Rendered == out # <<>>

\* C3: a BinOp renders each child in parentheses exactly when the child is a
\* BinOp of strictly lower precedence or a UnaryOp, And or Or; so
\* 1 + 2 * 3 and (1 + 2) * 3 render as written.
C3_BinOpParenthesisation ==
    (Rendered /\ tree.kind = "BinOp") =>
        /\ out = Enclosed(tree, tree.lhs) \o <<" " \o tree.op \o " ">>
                    \o Enclosed(tree, tree.rhs)
        /\ (tree = BinOp("+", Atom(1), BinOp("*", Atom(2), Atom(3)))
               => out = <<"1", " + ", "2", " * ", "3">>)
        /\ (tree = BinOp("*", BinOp("+", Atom(1), Atom(2)), Atom(3))
               => out = <<"(", "1", " + ", "2", ")", " * ", "3">>)

\* (1 + 2) * 3, rendered
C3_Witness ==
    /\ tree = BinOp("*", BinOp("+", Atom(1), Atom(2)), Atom(3))
    /\ out = <<"(", "1", " + ", "2", ")", " * ", "3">>

Present(node) == node # Void

\* C4: an ArgDef renders its name, then ": " and the annotation when there
\* is one, followed by " = " and the default when there is one too; with a
\* default and no annotation, "=" and the default.  The default is rendered
\* at most once.
C4_ArgDefDefaultOnce ==
    (Rendered /\ tree.kind = "ArgDef") =>
        out = Tokens(tree.name)
                \o (IF Present(tree.annotation)
                    THEN <<": ">> \o Tokens(tree.annotation)
                            \o (IF Present(tree.default)
                                THEN <<" = ">> \o Tokens(tree.default)
                                ELSE <<>>)
                    ELSE IF Present(tree.default)
                    THEN <<"=">> \o Tokens(tree.default)
                    ELSE <<>>)

IfTernary(node) ==
    IF node.kind = "Ternary" THEN Parenthesised(Tokens(node))
    ELSE Tokens(node)

\* C9: a Ternary renders then, " if ", cond, " else ", other; then and cond
\* in parentheses exactly when they are Ternary nodes, other never; so a
\* Ternary in the else position renders as 1 if c else 2 if d else 3.
C9_TernaryParenthesisation ==
    (Rendered /\ tree.kind = "Ternary") =>
        /\ out = IfTernary(tree.then) \o <<" if ">> \o IfTernary(tree.cond)
                    \o <<" else ">> \o Tokens(tree.other)
        /\ (tree = Ternary(Name("c"), Atom(1),
                           Ternary(Name("d"), Atom(2), Atom(3)))
               => out = <<"1", " if ", "c", " else ",
                          "2", " if ", "d", " else ", "3">>)

\* 1 if c else 2 if d else 3, rendered
C9_Witness ==
    /\ tree.kind = "Ternary" /\ tree.other.kind = "Ternary"
    /\ out = <<"1", " if ", "c", " else ", "2", " if ", "d", " else ", "3">>

\* Re-reading a token stream: operands are leaves, parenthesised expressions
\* and prefix operators applied to an operand; binary operators group by
\* precedence level, and left to right within a level.
IsBinaryToken(tok) == \E t \in BinaryTags : tok = " " \o t \o " "
TagOf(tok) == CHOOSE t \in BinaryTags : tok = " " \o t \o " "
LeafOf(tok) ==
    IF \E l \in Leaves : Tokens(l) = <<tok>>
    THEN CHOOSE l \in Leaves : Tokens(l) = <<tok>>
    ELSE Void

RECURSIVE ParseExpr(_, _, _)
RECURSIVE ParseOperand(_, _)
RECURSIVE ParseRest(_, _, _, _)

ParseOperand(toks, i) ==
    IF i > Len(toks) THEN [node |-> Void, next |-> i]
    ELSE IF toks[i] = "("
    THEN LET r == ParseExpr(toks, i + 1, 0) IN
         [node |-> r.node, next |-> r.next + 1]
    ELSE IF toks[i] \in UnaryTags
    THEN LET r == ParseOperand(toks, i + 1) IN
         [node |-> UnaryOp(toks[i], r.node), next |-> r.next]
    ELSE [node |-> LeafOf(toks[i]), next |-> i + 1]

ParseRest(toks, lhs, i, minLevel) ==
    IF /\ i <= Len(toks)
       /\ IsBinaryToken(toks[i])
       /\ PrecedenceLevel(TagOf(toks[i])) >= minLevel
    THEN LET t == TagOf(toks[i])
             r == ParseExpr(toks, i + 1, PrecedenceLevel(t) + 1)
         IN ParseRest(toks, BinOp(t, lhs, r.node), r.next, minLevel)
    ELSE [node |-> lhs, next |-> i]

ParseExpr(toks, i, minLevel) ==
    LET p == ParseOperand(toks, i) IN
    ParseRest(toks, p.node, p.next, minLevel)

Parse(toks) == ParseExpr(toks, 1, 0).node

RECURSIVE IsArithmetic(_)
\* Built from Name / Atom leaves, BinOp and UnaryOp only.
IsArithmetic(node) ==
    CASE node.kind \in {"Atom", "Name"} -> TRUE
      [] node.kind = "BinOp" -> IsArithmetic(node.lhs) /\ IsArithmetic(node.rhs)
      [] node.kind = "UnaryOp" -> IsArithmetic(node.expr)
      [] OTHER -> FALSE

\* C10: the rendering of a tree of leaves, BinOp and UnaryOp nodes, re-read,
\* is that tree: rendering keeps the grouping.
C10_RenderingKeepsGrouping ==
    (Rendered /\ IsArithmetic(tree)) => Parse(out) = tree

=============================================================================
